---- MODULE Spec2Model ----
(***************************************************************************)
(* App Hub (masrulmollah/MMAPPHUB): the local store (storageService), the  *)
(* cloud mirror (syncService) and the App component's persistence and sync *)
(* handlers of the sync variant (src/unnamed/part_000), with the local     *)
(* store of src/App.tsx, which is the same code.                           *)
(*                                                                         *)
(* JavaScript values are tagged records; a JavaScript string is a sequence *)
(* of characters; the text held by localStorage or by the key-value store  *)
(* is a sequence of JSON tokens, written by JSONstringify and read back by *)
(* JSONparse, a recursive-descent parser.                                  *)
(*                                                                         *)
(* Spec is one device and the key-value store; SpecTwo is two devices that *)
(* share a sync key, one of them left alone; SpecStore is the local store  *)
(* called by itself on every kind of record.                               *)
(***************************************************************************)
EXTENDS Integers, Sequences, FiniteSets, TLC

\* ------------------------------------------------------------------ bounds

\* Longest collection the local store is given to save or finds stored.
MaxLen == 2

\* Identifiers crypto.randomUUID hands out during a run: the entries added.
MaxIds == 1
\* Remote requests of one device in flight at the same time.
MaxInflight == 2
\* Remote requests sent during a run, all devices together, after the start.
MaxFetches == 2

\* ------------------------------------------------------- JavaScript values

JNull == [t |-> "null"]
JNum(n) == [t |-> "num", n |-> n]
JStr(s) == [t |-> "str", s |-> s]
JArr(a) == [t |-> "arr", a |-> a]
JObj(o) == [t |-> "obj", o |-> o]

\* Array.isArray(v)
IsArray(v) == v.t = "arr"

\* ToBoolean(v), as in `if (cloudData)`, `if (syncKey)`, `if (!data)`
Truthy(v) ==
  CASE v.t = "null" -> FALSE
    [] v.t = "str" -> v.s # <<>>
    [] v.t = "num" -> v.n # 0
    [] OTHER -> TRUE

\* A completed call: its value, or an exception that left it.
Ret(v) == [ok |-> TRUE, val |-> v]
Throw == [ok |-> FALSE]

\* ------------------------------------------------------------- JSON text

\* Tokens: punctuation, an object key, a string, a number, the word null.
P(c) == [p |-> c]
K(k) == [k |-> k]
S(s) == [s |-> s]
N(n) == [n |-> n]
W(w) == [w |-> w]

\* The order in which an entry's properties are written.
KeyOrder == <<"id", "name", "url", "icon", "category", "createdAt">>

RECURSIVE JSONstringify(_)
RECURSIVE StringifyItems(_)
RECURSIVE StringifyMembers(_, _)

\* a[1], a[2], ... separated by commas
StringifyItems(a) ==
  IF a = <<>> THEN <<>>
  ELSE IF Len(a) = 1 THEN JSONstringify(a[1])
  ELSE JSONstringify(a[1]) \o <<P(",")>> \o StringifyItems(Tail(a))

\* "k": o[k] for the keys ks that o has, separated by commas
StringifyMembers(o, ks) ==
  IF ks = <<>> THEN <<>>
  ELSE IF Head(ks) \notin DOMAIN o THEN StringifyMembers(o, Tail(ks))
  ELSE LET rest == StringifyMembers(o, Tail(ks))
           one == <<K(Head(ks)), P(":")>> \o JSONstringify(o[Head(ks)])
       IN  IF rest = <<>> THEN one ELSE one \o <<P(",")>> \o rest

\* JSON.stringify(v)
JSONstringify(v) ==
  CASE v.t = "null" -> <<W("null")>>
    [] v.t = "num" -> <<N(v.n)>>
    [] v.t = "str" -> <<S(v.s)>>
    [] v.t = "arr" -> <<P("[")>> \o StringifyItems(v.a) \o <<P("]")>>
    [] v.t = "obj" -> <<P("{")>> \o StringifyMembers(v.o, KeyOrder) \o <<P("}")>>

\* A parser's answer: the value read and the tokens left, or a syntax error.
Parsed(v, rest) == [ok |-> TRUE, val |-> v, rest |-> rest]
SyntaxError == [ok |-> FALSE]

EmptyObject == [x \in {} |-> JNull]

RECURSIVE ParseValue(_)
RECURSIVE ParseItems(_, _)
RECURSIVE ParseMembers(_, _)

\* after "[" and the items `acc`: a value, then "," or "]"
ParseItems(ts, acc) ==
  LET r == ParseValue(ts) IN
  IF ~r.ok \/ r.rest = <<>> THEN SyntaxError
  ELSE IF Head(r.rest) = P("]") THEN Parsed(JArr(Append(acc, r.val)), Tail(r.rest))
  ELSE IF Head(r.rest) = P(",") THEN ParseItems(Tail(r.rest), Append(acc, r.val))
  ELSE SyntaxError

\* after "{" and the members `o`: a key, ":", a value, then "," or "}"
ParseMembers(ts, o) ==
  IF Len(ts) < 2 \/ "k" \notin DOMAIN ts[1] \/ ts[2] # P(":") THEN SyntaxError
  ELSE LET r == ParseValue(Tail(Tail(ts)))
           o2 == (ts[1].k :> r.val) @@ o
       IN  IF ~r.ok \/ r.rest = <<>> THEN SyntaxError
           ELSE IF Head(r.rest) = P("}") THEN Parsed(JObj(o2), Tail(r.rest))
           ELSE IF Head(r.rest) = P(",") THEN ParseMembers(Tail(r.rest), o2)
           ELSE SyntaxError

ParseValue(ts) ==
  IF ts = <<>> THEN SyntaxError
  ELSE LET h == Head(ts) IN
    CASE "s" \in DOMAIN h -> Parsed(JStr(h.s), Tail(ts))
      [] "n" \in DOMAIN h -> Parsed(JNum(h.n), Tail(ts))
      [] "w" \in DOMAIN h -> IF h.w = "null" THEN Parsed(JNull, Tail(ts)) ELSE SyntaxError
      [] h = P("[") ->
           IF Len(ts) >= 2 /\ ts[2] = P("]") THEN Parsed(JArr(<<>>), Tail(Tail(ts)))
           ELSE ParseItems(Tail(ts), <<>>)
      [] h = P("{") ->
           IF Len(ts) >= 2 /\ ts[2] = P("}") THEN Parsed(JObj(EmptyObject), Tail(Tail(ts)))
           ELSE ParseMembers(Tail(ts), EmptyObject)
      [] OTHER -> SyntaxError

\* JSON.parse(text): one value and nothing after it, or it throws.
JSONparse(text) ==
  LET r == ParseValue(text) IN
  IF r.ok /\ r.rest = <<>> THEN Ret(r.val) ELSE Throw

\* ---------------------------------------------------------------- entries

\* An AppLink. Identifiers, categories, icons and sync keys are opaque and
\* written as one symbol; names and urls are spelled out in characters.
AppLink(id, name, url, icon, category, createdAt) ==
  JObj([id |-> JStr(id), name |-> JStr(name), url |-> JStr(url), icon |-> JStr(icon),
        category |-> JStr(category), createdAt |-> JNum(createdAt)])

General == <<"General">>
Business == <<"Business">>
\* CATEGORIES without 'All': what the form's select offers
FormCategories == {General, Business}

Https == <<"h", "t", "t", "p", "s", ":", "/", "/">>

\* The seed collection of constants.ts.
INITIAL_APPS ==
  JArr(<<AppLink(<<"seed">>, <<"H", "u", "b">>, Https \o <<"h">>, <<>>, General, 0)>>)

\* ------------------------------------------------------------ local store

\* localStorage of one device: the record under STORAGE_KEY and the one under
\* SYNC_KEY_STORAGE, each null (no record) or a string.
EmptyStorage == [STORAGE_KEY |-> JNull, SYNC_KEY_STORAGE |-> JNull]

getItem(storage, key) == storage[key]
setItem(storage, key, text) == [storage EXCEPT ![key] = JStr(text)]

\* getApps without its try and catch: the exception of JSON.parse leaves it
getAppsUncaught(storage) ==
  LET data == getItem(storage, "STORAGE_KEY") IN
  IF ~Truthy(data) THEN Ret(INITIAL_APPS)
  ELSE LET r == JSONparse(data.s) IN
       IF r.ok THEN Ret(r.val) ELSE Throw

\* storageService.getApps
getApps(storage) ==
  LET data == getItem(storage, "STORAGE_KEY") IN
  IF ~Truthy(data) THEN Ret(INITIAL_APPS)
  ELSE LET r == JSONparse(data.s) IN
       IF r.ok THEN Ret(r.val) ELSE Ret(INITIAL_APPS)

\* saveApps that writes after what the record holds instead of replacing it
saveAppsAppend(storage, apps) ==
  LET data == getItem(storage, "STORAGE_KEY") IN
  setItem(storage, "STORAGE_KEY",
          (IF data.t = "str" THEN data.s ELSE <<>>) \o JSONstringify(apps))

\* storageService.saveApps: localStorage after the call
saveApps(storage, apps) == setItem(storage, "STORAGE_KEY", JSONstringify(apps))

\* syncService.getSyncKey / setSyncKey
getSyncKey(storage) == getItem(storage, "SYNC_KEY_STORAGE")
setSyncKey(storage, key) == setItem(storage, "SYNC_KEY_STORAGE", key)

\* ------------------------------------------------------------ cloud mirror

\* A fetch in flight: a GET ("pull" from the auto-pull effect, "forcePull") or a
\* POST ("push") at https://keyvalue.xyz/1/<key>. It is sent, then the store
\* answers it (status, text), then its continuation runs on the page. A request
\* whose page was closed meanwhile has no continuation left (live = FALSE).
Request(op, key, body) ==
  [op |-> op, key |-> key, body |-> body, phase |-> "sent", status |-> "none",
   text |-> <<>>, live |-> TRUE]

\* fetchCloudApps without its Array.isArray: whatever the body decodes to
fetchCloudAppsAnyJson(req) ==
  IF req.status = "rejected" THEN Ret(JNull)
  ELSE IF req.status = "ok"
       THEN LET data == JSONparse(req.text) IN
            IF ~data.ok THEN Ret(JNull) ELSE Ret(data.val)
       ELSE Ret(JNull)

\* syncService.fetchCloudApps, from the answer to its fetch: status "rejected"
\* (fetch threw), "ok" (response.ok) or "notok"
fetchCloudApps(req) ==
  IF req.status = "rejected" THEN Ret(JNull)
  ELSE IF req.status = "ok"
       THEN LET data == JSONparse(req.text) IN
            IF ~data.ok THEN Ret(JNull)
            ELSE IF IsArray(data.val) THEN Ret(data.val) ELSE Ret(JNull)
       ELSE Ret(JNull)

\* syncService.pushCloudApps, from the answer to its fetch
pushCloudApps(req) ==
  IF req.status = "rejected" THEN Ret(FALSE) ELSE Ret(req.status = "ok")

\* ------------------------------------------------------------------ state

Devices == {"A", "B"}
Keys == {<<"k1">>, <<"k2">>}

VARIABLES
  localStorage,   \* per device: the two records of localStorage
  sessionStorage, \* per device: the record 'app_hub_is_admin', null or "true"/"false"
  page,           \* per device: "closed", "open" (App mounted) or "crashed" (render threw)
  apps,           \* per device: useState apps
  syncKey,        \* per device: useState syncKey, null or a string
  isSyncing,      \* per device: useState isSyncing
  isAdmin,        \* per device: useState isAdmin
  isModalOpen,    \* per device: useState isModalOpen
  editingApp,     \* per device: useState editingApp, null or an entry
  inflight,       \* per device: its fetches in flight, in the order they were sent
  remote,         \* the key-value store: per key, null (nothing stored) or the text stored
  nextId,         \* how many identifiers crypto.randomUUID has handed out
  fetches,        \* how many fetches have been sent
  now,            \* the latest reading of Date.now()
  last            \* the step taken last: the handler or continuation, the device, and
                  \* what it worked on (the new collection, the key, the fetch)

vars == <<localStorage, sessionStorage, page, apps, syncKey, isSyncing, isAdmin,
          isModalOpen, editingApp, inflight, remote, nextId, fetches, now, last>>

Ran(h, d, res) == [h |-> h, d |-> d, res |-> res]

\* crypto.randomUUID(): the n-th identifier
randomUUID(n) == <<"u" \o ToString(n)>>

RemoveAt(q, i) == SubSeq(q, 1, i - 1) \o SubSeq(q, i + 1, Len(q))

\* ------------------------------------------------------- page load, unload

\* Whether device d may send n more fetches within the bounds.
CanFetch(d, n) == Len(inflight[d]) < MaxInflight /\ fetches + n <= MaxFetches

\* Whether App's first render gets through filteredApps and the cards:
\* apps.filter and, for each element, app.name.toLowerCase(), app.url.toLowerCase()
Renders(v) ==
  /\ IsArray(v)
  /\ \A i \in DOMAIN v.a :
       /\ v.a[i].t = "obj"
       /\ {"name", "url"} \subseteq DOMAIN v.a[i].o
       /\ v.a[i].o.name.t = "str"
       /\ v.a[i].o.url.t = "str"

BoolText(b) == IF b THEN <<"true">> ELSE <<"false">>

\* App constructed on a device with this localStorage and sessionStorage: the
\* useState initialisers, the first render, then the effects (the auto-pull
\* effect with its fetch, the effect that stores the admin flag).
Constructed(storage, session) ==
  LET loaded == getApps(storage).val
      key == getSyncKey(storage)
      admin == session = JStr(<<"true">>)
  IN  IF ~Renders(loaded)
      THEN [page |-> "crashed", apps |-> JArr(<<>>), syncKey |-> JNull, isAdmin |-> FALSE,
            isSyncing |-> FALSE, session |-> session, sent |-> <<>>]
      ELSE [page |-> "open", apps |-> loaded, syncKey |-> key, isAdmin |-> admin,
            isSyncing |-> Truthy(key), session |-> JStr(BoolText(admin)),
            sent |-> IF Truthy(key) THEN <<Request("pull", key.s, <<>>)>> ELSE <<>>]

\* A page load
Mount(d) ==
  LET c == Constructed(localStorage[d], sessionStorage[d]) IN
  /\ page[d] = "closed"
  /\ c.sent # <<>> => CanFetch(d, 1)
  /\ page' = [page EXCEPT ![d] = c.page]
  /\ apps' = [apps EXCEPT ![d] = c.apps]
  /\ syncKey' = [syncKey EXCEPT ![d] = c.syncKey]
  /\ isAdmin' = [isAdmin EXCEPT ![d] = c.isAdmin]
  /\ sessionStorage' = [sessionStorage EXCEPT ![d] = c.session]
  /\ isSyncing' = [isSyncing EXCEPT ![d] = c.isSyncing]
  /\ inflight' = [inflight EXCEPT ![d] = @ \o c.sent]
  /\ fetches' = fetches + Len(c.sent)
  /\ last' = Ran("mount", d, JNull)
  /\ UNCHANGED <<localStorage, isModalOpen, editingApp, remote, nextId, now>>

\* What the store may hold at the start, put there by anyone who knows the
\* key: nothing, text that is no JSON, JSON that is no array, arrays (of no
\* entry, of one, of the same entry twice).
RemoteEntry == AppLink(<<"r1">>, <<"R">>, Https \o <<"r">>, <<>>, Business, 0)
RemoteTexts ==
  { <<P("?")>>, JSONstringify(JObj(EmptyObject)), JSONstringify(JArr(<<>>)),
    JSONstringify(JArr(<<RemoteEntry>>)), JSONstringify(JArr(<<RemoteEntry, RemoteEntry>>)) }
RemoteInit == {JNull} \cup {JStr(t) : t \in RemoteTexts}

\* What earlier sessions may have left in localStorage: nothing (a first run),
\* or a collection with the sync key k1.
StartStorages ==
  { EmptyStorage,
    setSyncKey(saveApps(EmptyStorage, INITIAL_APPS), <<"k1">>) }

\* The devices D have just loaded the page, in a new session; the store holds
\* something at k1 and nothing at k2.
InitOf(D) ==
  \E storage \in StartStorages, text \in RemoteInit :
    LET c == Constructed(storage, JNull) IN
    /\ localStorage = [d \in Devices |-> IF d \in D THEN storage ELSE EmptyStorage]
    /\ sessionStorage = [d \in Devices |-> IF d \in D THEN c.session ELSE JNull]
    /\ page = [d \in Devices |-> IF d \in D THEN c.page ELSE "closed"]
    /\ apps = [d \in Devices |-> IF d \in D THEN c.apps ELSE JArr(<<>>)]
    /\ syncKey = [d \in Devices |-> IF d \in D THEN c.syncKey ELSE JNull]
    /\ isSyncing = [d \in Devices |-> IF d \in D THEN c.isSyncing ELSE FALSE]
    /\ isAdmin = [d \in Devices |-> IF d \in D THEN c.isAdmin ELSE FALSE]
    /\ isModalOpen = [d \in Devices |-> FALSE]
    /\ editingApp = [d \in Devices |-> JNull]
    /\ inflight = [d \in Devices |-> IF d \in D THEN c.sent ELSE <<>>]
    /\ remote = [k \in Keys |-> IF k = <<"k1">> THEN text ELSE JNull]
    /\ nextId = 0
    /\ fetches = 0
    /\ now = 0
    /\ last = Ran("mount", "A", JNull)

Init == InitOf({"A"})

\* Page unload (a reload or a closed tab that is opened again): the component's
\* state is gone, localStorage and sessionStorage stay; a fetch the store has
\* answered, or a GET, has nobody left to hear of it, a POST on its way may
\* still arrive.
Close(d) ==
  /\ page[d] # "closed"
  /\ page' = [page EXCEPT ![d] = "closed"]
  /\ apps' = [apps EXCEPT ![d] = JArr(<<>>)]
  /\ syncKey' = [syncKey EXCEPT ![d] = JNull]
  /\ isSyncing' = [isSyncing EXCEPT ![d] = FALSE]
  /\ isAdmin' = [isAdmin EXCEPT ![d] = FALSE]
  /\ isModalOpen' = [isModalOpen EXCEPT ![d] = FALSE]
  /\ editingApp' = [editingApp EXCEPT ![d] = JNull]
  /\ inflight' = [inflight EXCEPT ![d] =
         LET left == SelectSeq(@, LAMBDA r : r.op = "push" /\ r.phase = "sent")
         IN  [i \in DOMAIN left |-> [left[i] EXCEPT !.live = FALSE]]]
  /\ last' = Ran("close", d, JNull)
  /\ UNCHANGED <<localStorage, sessionStorage, remote, nextId, fetches, now>>

\* ---------------------------------------------------------------- handlers

\* The part of a device's state that updateApps works on, and the fetches it sends.
Current(d) ==
  [apps |-> apps[d], storage |-> localStorage[d], isSyncing |-> isSyncing[d],
   inflight |-> inflight[d], fetches |-> 0]

Commit(d, st) ==
  /\ fetches' = fetches + st.fetches
  /\ apps' = [apps EXCEPT ![d] = st.apps]
  /\ localStorage' = [localStorage EXCEPT ![d] = st.storage]
  /\ isSyncing' = [isSyncing EXCEPT ![d] = st.isSyncing]
  /\ inflight' = [inflight EXCEPT ![d] = st.inflight]

\* updateApps without its `if (syncKey)` block: it never pushes
updateAppsNeverPushes(st, newApps, key) ==
  [st EXCEPT !.apps = newApps, !.storage = saveApps(st.storage, newApps)]

\* updateApps that pushes the apps of its render, not newApps
updateAppsPushesOld(st, newApps, key) ==
  LET saved == [st EXCEPT !.apps = newApps, !.storage = saveApps(st.storage, newApps)]
  IN  IF Truthy(key)
      THEN [saved EXCEPT !.isSyncing = TRUE, !.fetches = @ + 1,
                         !.inflight = Append(@, Request("push", key.s, JSONstringify(st.apps)))]
      ELSE saved

\* updateApps without its saveApps
updateAppsUnsaved(st, newApps, key) ==
  LET saved == [st EXCEPT !.apps = newApps]
  IN  IF Truthy(key)
      THEN [saved EXCEPT !.isSyncing = TRUE, !.fetches = @ + 1,
                         !.inflight = Append(@, Request("push", key.s, JSONstringify(newApps)))]
      ELSE saved

\* updateApps(newApps) of a render whose syncKey is `key`, up to its await:
\* setApps, saveApps and, with a key, setIsSyncing(true) and the POST
updateApps(st, newApps, key) ==
  LET saved == [st EXCEPT !.apps = newApps, !.storage = saveApps(st.storage, newApps)]
  IN  IF Truthy(key)
      THEN [saved EXCEPT !.isSyncing = TRUE, !.fetches = @ + 1,
                         !.inflight = Append(@, Request("push", key.s, JSONstringify(newApps)))]
      ELSE saved

\* What the add and edit form may be submitted with.
FormInputs ==
  { [name |-> <<>>, url |-> <<"m">>, icon |-> <<>>, category |-> General],
    [name |-> <<"M">>, url |-> <<>>, icon |-> <<>>, category |-> General],
    [name |-> <<"M">>, url |-> <<"m">>, icon |-> <<>>, category |-> Business],
    [name |-> <<"N">>, url |-> <<"h", "t", "t", "p", ":", "/", "/", "n">>, icon |-> <<>>,
     category |-> General] }

\* What the form is submitted with in the runs of Spec.
RunInputs ==
  { f \in FormInputs : f.url \in {<<>>, <<"m">>} }

\* s.startsWith(prefix)
StartsWith(s, prefix) ==
  Len(s) >= Len(prefix) /\ SubSeq(s, 1, Len(prefix)) = prefix

\* AppFormModal.handleSubmit's validatedUrl
validatedUrl(url) ==
  IF StartsWith(url, <<"h", "t", "t", "p">>) THEN url ELSE Https \o url

\* AppFormModal.handleSubmit's argument to onSave
appDataOf(initialData, f) ==
  LET fields == [name |-> JStr(f.name), url |-> JStr(validatedUrl(f.url)),
                 icon |-> JStr(f.icon), category |-> JStr(f.category)]
  IN  IF Truthy(initialData) THEN JObj(fields @@ initialData.o) ELSE JObj(fields)

\* apps.map without its test of the id: every entry becomes appData
ReplaceEvery(a, appData) ==
  [i \in DOMAIN a |-> appData]

\* apps.map(app => app.id === appData.id ? appData : app)
ReplaceById(a, appData) ==
  [i \in DOMAIN a |-> IF a[i].o.id = appData.o.id THEN appData ELSE a[i]]

\* apps.filter whose test is turned round: the entries with the id are kept
KeepById(a, id) == SelectSeq(a, LAMBDA app : app.o.id = id)

\* apps.filter(app => app.id !== id)
RemoveById(a, id) == SelectSeq(a, LAMBDA app : app.o.id # id)

HasRoom(d) == Truthy(syncKey[d]) => CanFetch(d, 1)

CloseModalOf(d) ==
  /\ isModalOpen' = [isModalOpen EXCEPT ![d] = FALSE]
  /\ editingApp' = [editingApp EXCEPT ![d] = JNull]

\* The form's submit button, with the fields f: this is handleSubmit, which
\* returns when name or url is empty and calls handleSaveApp otherwise.
Submitting(d, f) == page[d] = "open" /\ isModalOpen[d] /\ f \in RunInputs

handleSubmitReturn(d, f) ==
  /\ Submitting(d, f)
  /\ f.name = <<>> \/ f.url = <<>>
  /\ last' = Ran("handleSubmit", d, f)
  /\ UNCHANGED <<localStorage, sessionStorage, page, apps, syncKey, isSyncing, isAdmin,
                 isModalOpen, editingApp, inflight, remote, nextId, fetches, now>>

\* handleSubmit of the edit form, then handleSaveApp's 'id' in appData branch
handleSaveAppEdit(d, f) ==
  /\ Submitting(d, f)
  /\ f.name # <<>> /\ f.url # <<>>
  /\ Truthy(editingApp[d])
  /\ HasRoom(d)
  /\ LET appData == appDataOf(editingApp[d], f)
         nextApps == JArr(ReplaceById(apps[d].a, appData))
     IN  /\ Commit(d, updateApps(Current(d), nextApps, syncKey[d]))
         /\ last' = Ran("handleSaveApp", d, nextApps)
  /\ CloseModalOf(d)
  /\ UNCHANGED <<sessionStorage, page, syncKey, isAdmin, remote, nextId, now>>

\* handleSubmit without its `if (!name || !url) return`, then handleSaveApp's
\* other branch
handleSaveAppAddUnchecked(d, f) ==
  /\ Submitting(d, f)
  /\ ~Truthy(editingApp[d])
  /\ HasRoom(d)
  /\ nextId < MaxIds
  /\ \E t \in {now, now + 1} :
       LET appData == appDataOf(editingApp[d], f)
           newApp == JObj([id |-> JStr(randomUUID(nextId + 1)), createdAt |-> JNum(t)]
                          @@ appData.o)
           nextApps == JArr(<<newApp>> \o apps[d].a)
       IN  /\ Commit(d, updateApps(Current(d), nextApps, syncKey[d]))
           /\ now' = t
           /\ last' = Ran("handleSaveApp", d, nextApps)
  /\ nextId' = nextId + 1
  /\ CloseModalOf(d)
  /\ UNCHANGED <<sessionStorage, page, syncKey, isAdmin, remote>>

\* handleSaveApp's other branch with [...apps, newApp]: the new entry comes last
handleSaveAppAddLast(d, f) ==
  /\ Submitting(d, f)
  /\ f.name # <<>> /\ f.url # <<>>
  /\ ~Truthy(editingApp[d])
  /\ HasRoom(d)
  /\ nextId < MaxIds
  /\ \E t \in {now, now + 1} :
       LET appData == appDataOf(editingApp[d], f)
           newApp == JObj([id |-> JStr(randomUUID(nextId + 1)), createdAt |-> JNum(t)]
                          @@ appData.o)
           nextApps == JArr(apps[d].a \o <<newApp>>)
       IN  /\ Commit(d, updateApps(Current(d), nextApps, syncKey[d]))
           /\ now' = t
           /\ last' = Ran("handleSaveApp", d, nextApps)
  /\ nextId' = nextId + 1
  /\ CloseModalOf(d)
  /\ UNCHANGED <<sessionStorage, page, syncKey, isAdmin, remote>>

\* handleSubmit of the add form, then handleSaveApp's other branch
handleSaveAppAdd(d, f) ==
  /\ Submitting(d, f)
  /\ f.name # <<>> /\ f.url # <<>>
  /\ ~Truthy(editingApp[d])
  /\ HasRoom(d)
  /\ nextId < MaxIds
  /\ \E t \in {now, now + 1} :
       LET appData == appDataOf(editingApp[d], f)
           newApp == JObj([id |-> JStr(randomUUID(nextId + 1)), createdAt |-> JNum(t)]
                          @@ appData.o)
           nextApps == JArr(<<newApp>> \o apps[d].a)
       IN  /\ Commit(d, updateApps(Current(d), nextApps, syncKey[d]))
           /\ now' = t
           /\ last' = Ran("handleSaveApp", d, nextApps)
  /\ nextId' = nextId + 1
  /\ CloseModalOf(d)
  /\ UNCHANGED <<sessionStorage, page, syncKey, isAdmin, remote>>

\* The edit form's remove button, confirmed
handleDeleteApp(d) ==
  /\ page[d] = "open" /\ isModalOpen[d]
  /\ Truthy(editingApp[d])
  /\ HasRoom(d)
  /\ LET id == editingApp[d].o.id
         nextApps == JArr(RemoveById(apps[d].a, id))
     IN  /\ Commit(d, updateApps(Current(d), nextApps, syncKey[d]))
         /\ last' = Ran("handleDeleteApp", d, nextApps)
  /\ CloseModalOf(d)
  /\ UNCHANGED <<sessionStorage, page, syncKey, isAdmin, remote, nextId, now>>

\* The ADD button: setEditingApp(null), setIsModalOpen(true)
openAdd(d) ==
  /\ page[d] = "open" /\ ~isModalOpen[d]
  /\ isModalOpen' = [isModalOpen EXCEPT ![d] = TRUE]
  /\ editingApp' = [editingApp EXCEPT ![d] = JNull]
  /\ last' = Ran("openAdd", d, JNull)
  /\ UNCHANGED <<localStorage, sessionStorage, page, apps, syncKey, isSyncing, isAdmin,
                 inflight, remote, nextId, fetches, now>>

\* A card's edit button, rendered for an admin: onEdit(app)
onEdit(d) ==
  /\ page[d] = "open" /\ ~isModalOpen[d]
  /\ isAdmin[d]
  /\ \E i \in DOMAIN apps[d].a :
       /\ editingApp' = [editingApp EXCEPT ![d] = apps[d].a[i]]
       /\ last' = Ran("onEdit", d, JNull)
  /\ isModalOpen' = [isModalOpen EXCEPT ![d] = TRUE]
  /\ UNCHANGED <<localStorage, sessionStorage, page, apps, syncKey, isSyncing, isAdmin,
                 inflight, remote, nextId, fetches, now>>

\* The form's close button
onClose(d) ==
  /\ page[d] = "open" /\ isModalOpen[d]
  /\ CloseModalOf(d)
  /\ last' = Ran("onClose", d, JNull)
  /\ UNCHANGED <<localStorage, sessionStorage, page, apps, syncKey, isSyncing, isAdmin,
                 inflight, remote, nextId, fetches, now>>

\* The ADMIN / LOGIN button, and the effect that stores the flag
toggleAdmin(d) ==
  /\ page[d] = "open" /\ ~isModalOpen[d]
  /\ isAdmin' = [isAdmin EXCEPT ![d] = ~isAdmin[d]]
  /\ sessionStorage' = [sessionStorage EXCEPT ![d] = JStr(BoolText(~isAdmin[d]))]
  /\ last' = Ran("toggleAdmin", d, JNull)
  /\ UNCHANGED <<localStorage, page, apps, syncKey, isSyncing, isModalOpen, editingApp,
                 inflight, remote, nextId, fetches, now>>

\* handleSetSyncKey without its syncService.setSyncKey
handleSetSyncKeyUnpersisted(d, key) ==
  LET changed == syncKey[d] # JStr(key) IN
  /\ changed => CanFetch(d, 1)
  /\ fetches' = IF changed THEN fetches + 1 ELSE fetches
  /\ syncKey' = [syncKey EXCEPT ![d] = JStr(key)]
  /\ isSyncing' = [isSyncing EXCEPT ![d] = IF changed THEN TRUE ELSE @]
  /\ inflight' = [inflight EXCEPT ![d] =
         IF changed THEN Append(@, Request("pull", key, <<>>)) ELSE @]
  /\ last' = Ran("handleSetSyncKey", d, JStr(key))
  /\ UNCHANGED <<localStorage, sessionStorage, page, apps, isAdmin, isModalOpen, editingApp,
                 remote, nextId, now>>

\* handleSetSyncKey(key), and the auto-pull effect, which React runs again only
\* when syncKey is another value than at the last render
handleSetSyncKey(d, key) ==
  LET changed == syncKey[d] # JStr(key) IN
  /\ changed => CanFetch(d, 1)
  /\ fetches' = IF changed THEN fetches + 1 ELSE fetches
  /\ syncKey' = [syncKey EXCEPT ![d] = JStr(key)]
  /\ localStorage' = [localStorage EXCEPT ![d] = setSyncKey(@, key)]
  /\ isSyncing' = [isSyncing EXCEPT ![d] = IF changed THEN TRUE ELSE @]
  /\ inflight' = [inflight EXCEPT ![d] =
         IF changed THEN Append(@, Request("pull", key, <<>>)) ELSE @]
  /\ last' = Ran("handleSetSyncKey", d, JStr(key))
  /\ UNCHANGED <<sessionStorage, page, apps, isAdmin, isModalOpen, editingApp, remote,
                 nextId, now>>

RECURSIVE TrimStart(_)
TrimStart(s) == IF s # <<>> /\ Head(s) = " " THEN TrimStart(Tail(s)) ELSE s
RECURSIVE TrimEnd(_)
TrimEnd(s) == IF s # <<>> /\ s[Len(s)] = " " THEN TrimEnd(SubSeq(s, 1, Len(s) - 1)) ELSE s
\* s.trim()
Trim(s) == TrimEnd(TrimStart(s))

\* What the sync key field may hold when Connect is pressed.
KeyInputs == {<<" ">>, <<"k1">>, <<" ", "k2">>}

\* SyncModal.handleApply with the field holding inputKey
handleApply(d) ==
  /\ page[d] = "open" /\ ~isModalOpen[d]
  /\ \E inputKey \in KeyInputs :
       /\ Trim(inputKey) # <<>>
       /\ handleSetSyncKey(d, Trim(inputKey))

\* SyncModal.handleGenerate: a key made of Math.random(), unlike the current one
handleGenerate(d) ==
  /\ page[d] = "open" /\ ~isModalOpen[d]
  /\ \E newKey \in Keys :
       /\ syncKey[d] # JStr(newKey)
       /\ handleSetSyncKey(d, newKey)

\* forcePull up to its await; the button is rendered when syncKey is set. The
\* POST that may follow the GET is counted here.
forcePull(d) ==
  /\ page[d] = "open" /\ ~isModalOpen[d]
  /\ Truthy(syncKey[d])
  /\ CanFetch(d, 2)
  /\ fetches' = fetches + 2
  /\ isSyncing' = [isSyncing EXCEPT ![d] = TRUE]
  /\ inflight' = [inflight EXCEPT ![d] = Append(@, Request("forcePull", syncKey[d].s, <<>>))]
  /\ last' = Ran("forcePull", d, syncKey[d])
  /\ UNCHANGED <<localStorage, sessionStorage, page, apps, syncKey, isAdmin, isModalOpen,
                 editingApp, remote, nextId, now>>

\* ------------------------------------------------- the store and the awaits

\* The store answers a GET: the text stored at the key with a 2xx status, a
\* status that is no 2xx, or nothing that arrives (fetch rejects).
answerGet(d, i) ==
  LET r == inflight[d][i] IN
  /\ r.phase = "sent" /\ r.op # "push"
  /\ \E status \in {"ok", "notok", "rejected"} :
       /\ status = "ok" => remote[r.key] # JNull
       /\ inflight' = [inflight EXCEPT ![d][i] =
              [r EXCEPT !.phase = "answered", !.status = status,
                        !.text = IF status = "ok" THEN remote[r.key].s ELSE <<>>]]
  /\ last' = Ran("answerGet", d, JNull)
  /\ UNCHANGED <<localStorage, sessionStorage, page, apps, syncKey, isSyncing, isAdmin,
                 isModalOpen, editingApp, remote, nextId, fetches, now>>

\* The store answers a POST: it stores the body with a 2xx status, refuses it
\* with another status, or the fetch rejects, the body stored or not.
answerPost(d, i) ==
  LET r == inflight[d][i] IN
  /\ r.phase = "sent" /\ r.op = "push"
  /\ \E status \in {"ok", "notok", "rejected"}, stored \in BOOLEAN :
       /\ status = "ok" => stored
       /\ status = "notok" => ~stored
       /\ remote' = IF stored THEN [remote EXCEPT ![r.key] = JStr(r.body)] ELSE remote
       /\ inflight' = [inflight EXCEPT ![d] =
              IF r.live THEN [@ EXCEPT ![i] = [r EXCEPT !.phase = "answered", !.status = status]]
              ELSE RemoveAt(@, i)]
       /\ last' = Ran("answerPost", d, [r EXCEPT !.phase = "answered", !.status = status])
  /\ UNCHANGED <<localStorage, sessionStorage, page, apps, syncKey, isSyncing, isAdmin,
                 isModalOpen, editingApp, nextId, fetches, now>>

\* pull() that sends its GET again when fetchCloudApps returned null
pullResumesRetrying(d, i) ==
  LET r == inflight[d][i]
      cloudData == fetchCloudApps(r).val
  IN
  /\ r.phase = "answered" /\ r.op = "pull"
  /\ apps' = [apps EXCEPT ![d] = IF Truthy(cloudData) THEN cloudData ELSE @]
  /\ localStorage' = [localStorage EXCEPT ![d] =
         IF Truthy(cloudData) THEN saveApps(@, cloudData) ELSE @]
  /\ isSyncing' = [isSyncing EXCEPT ![d] = ~Truthy(cloudData)]
  /\ inflight' = [inflight EXCEPT ![d] =
         IF Truthy(cloudData) THEN RemoveAt(@, i)
         ELSE Append(RemoveAt(@, i), Request("pull", r.key, <<>>))]
  /\ last' = Ran("pull", d, r)
  /\ UNCHANGED <<sessionStorage, page, syncKey, isAdmin, isModalOpen, editingApp, remote,
                 nextId, fetches, now>>

\* pull() that keeps the local entries the store does not know: a merge
pullResumesMerging(d, i) ==
  LET r == inflight[d][i]
      cloudData == fetchCloudApps(r).val
      merged == IF Truthy(cloudData)
                THEN JArr(cloudData.a \o
                          SelectSeq(apps[d].a,
                                    LAMBDA app : \A k \in DOMAIN cloudData.a :
                                                   cloudData.a[k].o.id # app.o.id))
                ELSE apps[d]
  IN
  /\ r.phase = "answered" /\ r.op = "pull"
  /\ apps' = [apps EXCEPT ![d] = merged]
  /\ localStorage' = [localStorage EXCEPT ![d] =
         IF Truthy(cloudData) THEN saveApps(@, merged) ELSE @]
  /\ isSyncing' = [isSyncing EXCEPT ![d] = FALSE]
  /\ inflight' = [inflight EXCEPT ![d] = RemoveAt(@, i)]
  /\ last' = Ran("pull", d, r)
  /\ UNCHANGED <<sessionStorage, page, syncKey, isAdmin, isModalOpen, editingApp, remote,
                 nextId, fetches, now>>

\* pull() that takes an empty array for nothing to apply
pullResumesNonEmpty(d, i) ==
  LET r == inflight[d][i]
      cloudData == fetchCloudApps(r).val
      applies == Truthy(cloudData) /\ cloudData.a # <<>>
  IN
  /\ r.phase = "answered" /\ r.op = "pull"
  /\ apps' = [apps EXCEPT ![d] = IF applies THEN cloudData ELSE @]
  /\ localStorage' = [localStorage EXCEPT ![d] = IF applies THEN saveApps(@, cloudData) ELSE @]
  /\ isSyncing' = [isSyncing EXCEPT ![d] = FALSE]
  /\ inflight' = [inflight EXCEPT ![d] = RemoveAt(@, i)]
  /\ last' = Ran("pull", d, r)
  /\ UNCHANGED <<sessionStorage, page, syncKey, isAdmin, isModalOpen, editingApp, remote,
                 nextId, fetches, now>>

\* The auto-pull effect's pull() after its await
pullResumes(d, i) ==
  LET r == inflight[d][i]
      cloudData == fetchCloudApps(r).val
  IN
  /\ r.phase = "answered" /\ r.op = "pull"
  /\ apps' = [apps EXCEPT ![d] = IF Truthy(cloudData) THEN cloudData ELSE @]
  /\ localStorage' = [localStorage EXCEPT ![d] =
         IF Truthy(cloudData) THEN saveApps(@, cloudData) ELSE @]
  /\ isSyncing' = [isSyncing EXCEPT ![d] = FALSE]
  /\ inflight' = [inflight EXCEPT ![d] = RemoveAt(@, i)]
  /\ last' = Ran("pull", d, r)
  /\ UNCHANGED <<sessionStorage, page, syncKey, isAdmin, isModalOpen, editingApp, remote,
                 nextId, fetches, now>>

\* forcePull after its await: updateApps(data) of the render forcePull was
\* called in, whose syncKey is the key that was pulled, then setIsSyncing(false)
forcePullResumes(d, i) ==
  LET r == inflight[d][i]
      data == fetchCloudApps(r).val
      st == [Current(d) EXCEPT !.inflight = RemoveAt(@, i)]
      updated == IF Truthy(data) THEN [updateApps(st, data, JStr(r.key)) EXCEPT !.fetches = 0]
                 ELSE st
  IN
  /\ r.phase = "answered" /\ r.op = "forcePull"
  /\ Commit(d, [updated EXCEPT !.isSyncing = FALSE])
  /\ last' = Ran("forcePull.then", d, r)
  /\ UNCHANGED <<sessionStorage, page, syncKey, isAdmin, isModalOpen, editingApp, remote,
                 nextId, now>>

\* updateApps after its await, without its setIsSyncing(false)
updateAppsResumesSilent(d, i) ==
  LET r == inflight[d][i] IN
  /\ r.phase = "answered" /\ r.op = "push"
  /\ inflight' = [inflight EXCEPT ![d] = RemoveAt(@, i)]
  /\ last' = Ran("updateApps.then", d, r)
  /\ UNCHANGED <<localStorage, sessionStorage, page, apps, syncKey, isSyncing, isAdmin,
                 isModalOpen, editingApp, remote, nextId, fetches, now>>

\* updateApps after its await: setIsSyncing(false)
updateAppsResumes(d, i) ==
  LET r == inflight[d][i] IN
  /\ r.phase = "answered" /\ r.op = "push"
  /\ isSyncing' = [isSyncing EXCEPT ![d] = FALSE]
  /\ inflight' = [inflight EXCEPT ![d] = RemoveAt(@, i)]
  /\ last' = Ran("updateApps.then", d, r)
  /\ UNCHANGED <<localStorage, sessionStorage, page, apps, syncKey, isAdmin, isModalOpen,
                 editingApp, remote, nextId, fetches, now>>

\* ----------------------------------------------------------- specification

\* What the user of device d may do.
User(d) ==
  \/ Mount(d)
  \/ Close(d)
  \/ openAdd(d)
  \/ onEdit(d)
  \/ onClose(d)
  \/ toggleAdmin(d)
  \/ \E f \in FormInputs : handleSubmitReturn(d, f)
  \/ \E f \in FormInputs : handleSaveAppEdit(d, f)
  \/ \E f \in FormInputs : handleSaveAppAdd(d, f)
  \/ handleDeleteApp(d)
  \/ handleApply(d)
  \/ handleGenerate(d)
  \/ forcePull(d)

\* What happens to the fetches of device d without the user.
Network(d) ==
  \/ \E i \in DOMAIN inflight[d] : answerGet(d, i)
  \/ \E i \in DOMAIN inflight[d] : answerPost(d, i)
  \/ \E i \in DOMAIN inflight[d] : pullResumes(d, i)
  \/ \E i \in DOMAIN inflight[d] : forcePullResumes(d, i)
  \/ \E i \in DOMAIN inflight[d] : updateAppsResumes(d, i)

\* One device, A, and the store.
Next == User("A") \/ Network("A")

Spec == Init /\ [][Next]_vars


\* ------------------------------------------------- pulls, updates, the key

\* The record a device holds under STORAGE_KEY.
Persisted(d) == getItem(localStorage[d], "STORAGE_KEY")

\* The answer to a GET is a 2xx whose body decodes to an array.
ArrayAnswer(r) ==
  r.status = "ok" /\ JSONparse(r.text).ok /\ IsArray(JSONparse(r.text).val)

\* The answer to a GET is a transport error, a status that is no 2xx, a body
\* that is no JSON, or a body that decodes to something that is no array.
Failed(r) ==
  \/ r.status = "rejected"
  \/ r.status = "notok"
  \/ r.status = "ok" /\ ~JSONparse(r.text).ok
  \/ r.status = "ok" /\ JSONparse(r.text).ok /\ ~IsArray(JSONparse(r.text).val)

\* C1: right after the completion of an auto-pull whose answer is a 2xx with a
\* body that decodes to an array, the in-memory collection and the persisted
\* record both equal that array, the empty array too.
C1_PullReplacesLocal ==
  (last.h = "pull" /\ ArrayAnswer(last.res)) =>
    LET returned == JSONparse(last.res.text).val IN
    /\ apps[last.d] = returned
    /\ Persisted(last.d) = JStr(JSONstringify(returned))
    /\ getApps(localStorage[last.d]) = Ret(returned)

\* An auto-pull has brought the empty array: nothing is left in memory and
\* the persisted record is "[]".
C1_Witness ==
  /\ last.h = "pull" /\ last.d = "A"
  /\ ArrayAnswer(last.res)
  /\ JSONparse(last.res.text).val = JArr(<<>>)
  /\ apps["A"] = JArr(<<>>)
  /\ Persisted("A") = JStr(<<P("["), P("]")>>)

\* C2: when the GET of a pull or of a force-pull fails (transport error,
\* status that is no 2xx, body that is no JSON, body that is no array),
\* fetchCloudApps returns null and throws nothing, and the completion leaves
\* the in-memory collection, the persisted record and the store as they were.
C2_FailedPullChangesNothing ==
  [][ (last'.h \in {"pull", "forcePull.then"} /\ Failed(last'.res)) =>
        /\ fetchCloudApps(last'.res) = Ret(JNull)
        /\ apps' = apps
        /\ localStorage' = localStorage
        /\ remote' = remote ]_vars

\* A force-pull has completed on a 2xx whose body is JSON and no array.
C2_Witness ==
  /\ last.h = "forcePull.then" /\ last.d = "A"
  /\ last.res.status = "ok"
  /\ JSONparse(last.res.text).ok
  /\ ~IsArray(JSONparse(last.res.text).val)
  /\ apps["A"] = INITIAL_APPS
  /\ inflight["A"] = <<>>

\* C3: a step that runs updateApps(newApps) from the add, edit or delete
\* handler leaves newApps in memory and in the persisted record in the state
\* in which its push has just been sent; and the answer to a push that fails
\* (transport error, status that is no 2xx), and the continuation after it,
\* change neither.
C3_UpdateIsLocalFirst ==
  [][ /\ last'.h \in {"handleSaveApp", "handleDeleteApp"} =>
           LET d == last'.d IN
           /\ apps'[d] = last'.res
           /\ getItem(localStorage'[d], "STORAGE_KEY") = JStr(JSONstringify(last'.res))
           /\ Truthy(syncKey[d]) =>
                inflight'[d] = Append(inflight[d],
                                      Request("push", syncKey[d].s, JSONstringify(last'.res)))
      /\ (last'.h \in {"answerPost", "updateApps.then"}
            /\ last'.res.status \in {"notok", "rejected"}) =>
           apps' = apps /\ localStorage' = localStorage ]_vars

\* The push of an update has been refused and updateApps has run to its end:
\* memory and the persisted record hold what the push carried.
C3_Witness ==
  /\ last.h = "updateApps.then" /\ last.d = "A"
  /\ last.res.status = "notok"
  /\ JSONstringify(apps["A"]) = last.res.body
  /\ Persisted("A") = JStr(last.res.body)
  /\ remote[last.res.key] # JStr(last.res.body)

\* C4: whenever a fetch of the page (auto-pull, force-pull or push) has been
\* sent and not answered yet, isSyncing is true.
C4_SyncingWhileOutstanding ==
  \A d \in Devices :
    (\E i \in DOMAIN inflight[d] : inflight[d][i].live /\ inflight[d][i].phase = "sent")
      => isSyncing[d]

\* C5: the completion of a force-pull does what the completion of an auto-pull
\* does on the same answer: it replaces memory and the persisted record by a
\* returned array and leaves them alone otherwise, and it sends nothing, so
\* that one GET and no POST is all a force-pull issues.
C5_ForcePullIsAutoPull ==
  [][ last'.h = "forcePull.then" =>
        LET d == last'.d
            data == fetchCloudApps(last'.res).val
        IN  /\ apps'[d] = IF Truthy(data) THEN data ELSE apps[d]
            /\ getItem(localStorage'[d], "STORAGE_KEY") =
                 IF Truthy(data) THEN JStr(JSONstringify(data)) ELSE Persisted(d)
            /\ Len(inflight'[d]) = Len(inflight[d]) - 1
            /\ remote' = remote ]_vars

\* The pull a page load or a new key sends.
PullSent(d, key) == inflight'[d] = Append(inflight[d], Request("pull", key.s, <<>>))

\* C6 as claimed: a page load with a persisted key sends a pull at that key,
\* and every handleSetSyncKey(key) persists the key and sends a pull at it,
\* the key being new or the one already configured.
C6_EverySetKeyPulls ==
  [][ /\ last'.h = "handleSetSyncKey" =>
           /\ syncKey'[last'.d] = last'.res
           /\ getSyncKey(localStorage'[last'.d]) = last'.res
           /\ PullSent(last'.d, last'.res)
      /\ (last'.h = "mount" /\ Truthy(getSyncKey(localStorage[last'.d]))
            /\ page'[last'.d] = "open") =>
           /\ syncKey'[last'.d] = getSyncKey(localStorage[last'.d])
           /\ PullSent(last'.d, getSyncKey(localStorage[last'.d])) ]_vars

\* C6 as amended: a page load with a persisted key sends a pull at that key;
\* handleSetSyncKey(key) persists the key, and sends a pull at it when the key
\* is another one than the key configured and no request when it is the same.
C6_NewKeyPulls ==
  [][ /\ last'.h = "handleSetSyncKey" =>
           /\ syncKey'[last'.d] = last'.res
           /\ getSyncKey(localStorage'[last'.d]) = last'.res
           /\ syncKey[last'.d] # last'.res => PullSent(last'.d, last'.res)
           /\ syncKey[last'.d] = last'.res => inflight' = inflight
      /\ (last'.h = "mount" /\ Truthy(getSyncKey(localStorage[last'.d]))
            /\ page'[last'.d] = "open") =>
           /\ syncKey'[last'.d] = getSyncKey(localStorage[last'.d])
           /\ PullSent(last'.d, getSyncKey(localStorage[last'.d])) ]_vars

\* The key k1, configured already, has been applied again: it is persisted
\* and no request is in flight.
C6_Witness ==
  /\ last = Ran("handleSetSyncKey", "A", JStr(<<"k1">>))
  /\ syncKey["A"] = JStr(<<"k1">>)
  /\ getSyncKey(localStorage["A"]) = JStr(<<"k1">>)
  /\ inflight["A"] = <<>>
  /\ fetches = 0



\* ------------------------------------------------------ add, edit, delete

\* The identifiers of the entries of a.
Ids(a) == { a[i].o.id : i \in DOMAIN a }

\* C12: an add on the collection C leaves a collection of one entry more: its
\* first entry is the draft with an identifier that no entry of C has and
\* with the reading of the clock at the call, and the entries of C follow,
\* unchanged and in their order.
C12_AddPrepends ==
  [][ (last'.h = "handleSaveApp" /\ ~Truthy(editingApp[last'.d])) =>
        LET d == last'.d
            C == apps[d].a
            new == apps'[d].a[1]
        IN  /\ Len(apps'[d].a) = Len(C) + 1
            /\ Tail(apps'[d].a) = C
            /\ new.o.id \notin Ids(C)
            /\ new.o.createdAt = JNum(now') /\ now' >= now
            /\ \E f \in FormInputs :
                 new = JObj([id |-> new.o.id, createdAt |-> new.o.createdAt]
                            @@ appDataOf(JNull, f).o) ]_vars

\* An entry has been added to the seed collection at time 1: it comes first,
\* with the identifier u1, and the seed entry follows.
C12_Witness ==
  /\ last.h = "handleSaveApp" /\ last.d = "A"
  /\ nextId = 1
  /\ Len(apps["A"].a) = 2
  /\ apps["A"].a[1].o.id = JStr(randomUUID(1))
  /\ apps["A"].a[1].o.createdAt = JNum(1)
  /\ Tail(apps["A"].a) = INITIAL_APPS.a

\* C13: an edit of the entry with the identifier id leaves the collection as
\* long as it was, every entry with another identifier what and where it was,
\* and the edited entry with its identifier and its creation time; when no
\* entry has the identifier the collection is what it was.
C13_EditReplacesOne ==
  [][ (last'.h = "handleSaveApp" /\ Truthy(editingApp[last'.d])) =>
        LET d == last'.d
            C == apps[d].a
            E == apps'[d].a
            id == editingApp[d].o.id
        IN  /\ Len(E) = Len(C)
            /\ \A i \in DOMAIN C :
                 IF C[i].o.id # id THEN E[i] = C[i]
                 ELSE /\ E[i].o.id = id
                      /\ E[i].o.createdAt = C[i].o.createdAt
                      /\ \E f \in FormInputs :
                           \A k \in {"name", "url", "icon", "category"} :
                             E[i].o[k] = appDataOf(JNull, f).o[k]
            /\ id \notin Ids(C) => apps'[d] = apps[d] ]_vars

\* The seed entry, second of two, has been renamed "M": the first entry is
\* the added one, and the seed entry has its identifier and creation time.
C13_Witness ==
  /\ last.h = "handleSaveApp" /\ last.d = "A"
  /\ Len(apps["A"].a) = 2
  /\ apps["A"].a[1].o.id = JStr(randomUUID(1))
  /\ apps["A"].a[2].o.id = INITIAL_APPS.a[1].o.id
  /\ apps["A"].a[2].o.createdAt = INITIAL_APPS.a[1].o.createdAt
  /\ apps["A"].a[2].o.name = JStr(<<"M">>)
  /\ INITIAL_APPS.a[1].o.name # JStr(<<"M">>)

\* The positions of a whose entry has another identifier than id.
Kept(a, id) == { i \in DOMAIN a : a[i].o.id # id }

\* C14: a delete of the identifier id leaves the entries with another
\* identifier, all of them and in their order; when no entry has the
\* identifier, memory and the persisted collection are what they were, and
\* the page is still up.
C14_DeleteRemovesMatching ==
  [][ last'.h = "handleDeleteApp" =>
        LET d == last'.d
            C == apps[d].a
            E == apps'[d].a
            id == editingApp[d].o.id
        IN  /\ Len(E) = Cardinality(Kept(C, id))
            /\ \A k \in DOMAIN E :
                 E[k] = C[CHOOSE i \in Kept(C, id) :
                            Cardinality({j \in Kept(C, id) : j <= i}) = k]
            /\ id \notin Ids(C) =>
                 /\ apps'[d] = apps[d]
                 /\ getApps(localStorage'[d]) = getApps(localStorage[d])
            /\ page'[d] = "open" ]_vars

\* The seed entry was up for removal while a pull brought the stored entry
\* in its place: the delete has run and the collection is the pulled one.
C14_Witness ==
  /\ last.h = "handleDeleteApp" /\ last.d = "A"
  /\ nextId = 0
  /\ apps["A"] = JArr(<<RemoteEntry>>)
  /\ Persisted("A") = JStr(JSONstringify(JArr(<<RemoteEntry>>)))


\* C16: no two entries of the collection in memory have the same identifier,
\* whatever was added, edited, removed or pulled, the store returning any
\* array of entries.
C16_IdsAreUnique ==
  \A d \in Devices :
    IsArray(apps[d]) =>
      \A i, j \in DOMAIN apps[d].a :
        i # j => apps[d].a[i].o.id # apps[d].a[j].o.id

\* C18: with the admin flag off no add, edit or delete is started or carried
\* out, and the collection in memory changes only with the flag on or by the
\* completion of a pull.
C18_AdminGatesMutation ==
  [][ /\ last'.h \in {"openAdd", "onEdit", "handleSaveApp", "handleDeleteApp"}
           => isAdmin[last'.d]
      /\ \A d \in Devices :
           (apps'[d] # apps[d] /\ page[d] = "open" /\ page'[d] = "open")
             => isAdmin[d] \/ last'.h \in {"pull", "forcePull.then"} ]_vars

\* C19: the add form submitted with an empty name or an empty url creates no
\* entry and leaves memory, localStorage, the store and the fetches in flight
\* as they were; and an entry that is created has a name and a url that are
\* not empty and one of the form's categories.
C19_RequiredFields ==
  [][ /\ last'.h = "handleSubmit" =>
           /\ last'.res.name = <<>> \/ last'.res.url = <<>>
           /\ UNCHANGED <<apps, localStorage, remote, inflight, fetches, nextId>>
      /\ (last'.h = "handleSaveApp" /\ ~Truthy(editingApp[last'.d])) =>
           LET new == apps'[last'.d].a[1] IN
           /\ Len(apps'[last'.d].a) = Len(apps[last'.d].a) + 1
           /\ new.o.name.s # <<>>
           /\ new.o.url.s # <<>>
           /\ new.o.category.s \in FormCategories
      /\ (last'.h \notin {"handleSaveApp", "pull", "forcePull.then", "mount", "close"})
           => \A d \in Devices : Len(apps'[d].a) <= Len(apps[d].a) ]_vars

\* The add form was submitted without a name on a device with a sync key:
\* the form is still up, the collection is the seed and nothing is in flight.
C19_Witness ==
  /\ last.h = "handleSubmit" /\ last.d = "A"
  /\ last.res.name = <<>>
  /\ isModalOpen["A"] /\ editingApp["A"] = JNull
  /\ Truthy(syncKey["A"])
  /\ apps["A"] = INITIAL_APPS
  /\ inflight["A"] = <<>>

\* C20: every update sends its push after the pushes in flight, carrying the
\* whole collection the update leaves in memory; and a push answered with a
\* 2xx leaves its body in the store at its key, whatever a later update has
\* pushed there already.
C20_PushesInCallOrder ==
  [][ /\ (last'.h \in {"handleSaveApp", "handleDeleteApp"} /\ Truthy(syncKey[last'.d])) =>
           inflight'[last'.d] =
             Append(inflight[last'.d],
                    Request("push", syncKey[last'.d].s, JSONstringify(apps'[last'.d])))
      /\ (last'.h = "answerPost" /\ last'.res.status = "ok") =>
           remote' = [remote EXCEPT ![last'.res.key] = JStr(last'.res.body)] ]_vars

\* An entry was added to the pulled collection, then the pulled entry removed;
\* both pushes were answered with a 2xx, the second first: every fetch has
\* settled, the store holds the collection of the first update and memory
\* the collection of the second.
C20_Witness ==
  /\ last.h = "updateApps.then" /\ last.d = "A"
  /\ inflight["A"] = <<>> /\ inflight["B"] = <<>>
  /\ Len(apps["A"].a) = 1
  /\ apps["A"].a[1].o.id = JStr(randomUUID(1))
  /\ remote[syncKey["A"].s] = JStr(JSONstringify(JArr(<<apps["A"].a[1], RemoteEntry>>)))
  /\ Persisted("A") = JStr(JSONstringify(apps["A"]))


\* ------------------------------------------- pulls against local changes

\* C21: the completion of an auto-pull whose answer is a 2xx with an array
\* replaces whatever memory and localStorage hold by that array: an entry of
\* before the step is there after it only if the array has it, whatever was
\* added, edited or removed while the pull was in flight and whatever the
\* store has taken since.
C21_PullOverwritesLocalChange ==
  [][ (last'.h = "pull" /\ ArrayAnswer(last'.res)) =>
        LET d == last'.d
            returned == JSONparse(last'.res.text).val
        IN  /\ apps'[d] = returned
            /\ getItem(localStorage'[d], "STORAGE_KEY") = JStr(JSONstringify(returned))
            /\ \A k \in DOMAIN apps[d].a :
                 (\E j \in DOMAIN apps'[d].a : apps'[d].a[j] = apps[d].a[k])
                   <=> (\E j \in DOMAIN returned.a : returned.a[j] = apps[d].a[k])
            /\ remote' = remote ]_vars

\* An entry was added while the auto-pull was in flight and its push has
\* reached the store; then the pull completed with the array the store held
\* before: memory and localStorage hold that array, without the new entry,
\* and the store holds the new entry.
C21_Witness ==
  /\ last.h = "pull" /\ last.d = "A"
  /\ nextId = 1 /\ fetches = 1
  /\ apps["A"] = JArr(<<RemoteEntry>>)
  /\ Persisted("A") = JStr(JSONstringify(JArr(<<RemoteEntry>>)))
  /\ remote[last.res.key] # JNull
  /\ JSONparse(remote[last.res.key].s).ok
  /\ JSONparse(remote[last.res.key].s).val.t = "arr"
  /\ Len(JSONparse(remote[last.res.key].s).val.a) = 2
  /\ JSONparse(remote[last.res.key].s).val.a[1].o.id = JStr(randomUUID(1))


\* C22: an add, edit or delete sends a push, to the key of the device, exactly
\* when the device has a sync key; a device without a key has no fetch in
\* flight and an idle indicator, and its updates leave the store alone; and
\* neither the answer to a push nor the continuation of updateApps changes
\* the collection in memory or any record of localStorage.
C22_PushIffKey ==
  [][ /\ \A d \in Devices :
           /\ (last'.h \in {"handleSaveApp", "handleDeleteApp"} /\ last'.d = d) =>
                IF Truthy(syncKey[d])
                THEN /\ Len(inflight'[d]) = Len(inflight[d]) + 1
                     /\ inflight'[d][Len(inflight'[d])].op = "push"
                     /\ inflight'[d][Len(inflight'[d])].phase = "sent"
                     /\ inflight'[d][Len(inflight'[d])].key = syncKey[d].s
                     /\ isSyncing'[d]
                ELSE /\ inflight'[d] = inflight[d]
                     /\ isSyncing'[d] = isSyncing[d]
                     /\ remote' = remote
           /\ (page'[d] = "open" /\ ~Truthy(syncKey'[d])) =>
                inflight'[d] = <<>> /\ ~isSyncing'[d]
      /\ last'.h \in {"answerPost", "updateApps.then"} => UNCHANGED <<apps, localStorage>> ]_vars

\* A device without a key has added an entry and then removed the seed: no
\* fetch was ever sent, none is in flight, the indicator is idle.
C22_Witness ==
  /\ last.h = "handleDeleteApp" /\ last.d = "A"
  /\ ~Truthy(syncKey["A"])
  /\ nextId = 1
  /\ Len(apps["A"].a) = 1 /\ apps["A"].a[1].o.id = JStr(randomUUID(1))
  /\ Persisted("A") = JStr(JSONstringify(apps["A"]))
  /\ fetches = 0
  /\ inflight["A"] = <<>>
  /\ ~isSyncing["A"]


\* A fetch that has been answered and has failed: a GET as in Failed, a POST
\* for which pushCloudApps returns false.
RequestFailed(r) ==
  IF r.op = "push" THEN ~pushCloudApps(r).val ELSE Failed(r)

\* How many fetches of a queue are on their way to the store.
Sent(q) == Cardinality({ i \in DOMAIN q : q[i].phase = "sent" })

\* C23: the continuation of a pull, a force-pull or a push that has failed
\* sends nothing: the failed fetch leaves the fetches in flight, no other
\* joins them, and the sync key stays in memory and in localStorage. A fetch
\* is sent only by a page load, an add, edit or delete, a change of key, a
\* force-pull, or the push of a force-pull whose GET returned an array.
C23_NoAutomaticRetry ==
  [][ \A d \in Devices :
        /\ ( /\ last'.d = d
             /\ last'.h \in {"pull", "forcePull.then", "updateApps.then"}
             /\ RequestFailed(last'.res) ) =>
             /\ \E i \in DOMAIN inflight[d] : inflight'[d] = RemoveAt(inflight[d], i)
             /\ fetches' = fetches
             /\ syncKey'[d] = syncKey[d]
             /\ Truthy(syncKey'[d])
             /\ getSyncKey(localStorage'[d]) = syncKey'[d]
             /\ UNCHANGED <<apps, remote>>
        /\ Sent(inflight'[d]) > Sent(inflight[d]) =>
             \/ last'.h \in {"mount", "handleSaveApp", "handleDeleteApp", "handleSetSyncKey",
                             "forcePull"}
             \/ last'.h = "forcePull.then" /\ ArrayAnswer(last'.res) ]_vars

\* The start-up pull has failed and is gone, the seed is still in memory and
\* the key in place; then an entry was added and its push, the only fetch in
\* flight and the first since the failure, is on its way to that key.
C23_Witness ==
  /\ last.h = "handleSaveApp" /\ last.d = "A"
  /\ fetches = 1 /\ nextId = 1
  /\ Len(apps["A"].a) = 2 /\ apps["A"].a[2] = INITIAL_APPS.a[1]
  /\ Truthy(syncKey["A"])
  /\ getSyncKey(localStorage["A"]) = syncKey["A"]
  /\ Len(inflight["A"]) = 1
  /\ inflight["A"][1].op = "push" /\ inflight["A"][1].phase = "sent"
  /\ inflight["A"][1].key = syncKey["A"].s


\* C24: a device that has a sync key keeps one: no step of an open page takes
\* the key out of memory, no step takes it out of localStorage, and on an
\* open page the key in localStorage is the key in memory.
C24_KeyIsNeverRemoved ==
  [][ \A d \in Devices :
        /\ (page[d] = "open" /\ page'[d] = "open" /\ Truthy(syncKey[d]))
             => Truthy(syncKey'[d])
        /\ Truthy(getSyncKey(localStorage[d])) => Truthy(getSyncKey(localStorage'[d]))
        /\ page'[d] = "open" => getSyncKey(localStorage'[d]) = syncKey'[d] ]_vars

\* The device started with the key k1 and was given the key k2 while its
\* start-up pull was in flight: k2 is the key in memory and in localStorage.
C24_Witness ==
  /\ last.h = "handleSetSyncKey" /\ last.d = "A"
  /\ Len(inflight["A"]) = 2
  /\ inflight["A"][1].op = "pull" /\ inflight["A"][1].key = <<"k1">>
  /\ inflight["A"][2].op = "pull" /\ inflight["A"][2].key = <<"k2">>
  /\ syncKey["A"] = JStr(<<"k2">>)
  /\ getSyncKey(localStorage["A"]) = JStr(<<"k2">>)


\* C25: the completion of an auto-pull that was sent for a key the device no
\* longer has changes neither the collection in memory nor localStorage.
C25_StalePullIsDropped ==
  [][ (last'.h = "pull" /\ JStr(last'.res.key) # syncKey[last'.d]) =>
        UNCHANGED <<apps, localStorage>> ]_vars


\* ------------------------------------------------ the indicator, in the end

\* The page has just been loaded on a device that has the key k1; the store
\* holds nothing at k1, or an array of one entry.
LiveInit ==
  /\ Init
  /\ Truthy(syncKey["A"])
  /\ remote[<<"k1">>] \in {JNull, JStr(JSONstringify(JArr(<<RemoteEntry>>)))}

\* The user adds an entry, changes the key or pulls by hand; the store
\* answers and the continuations run.
LiveNext ==
  \/ openAdd("A")
  \/ \E f \in FormInputs : handleSaveAppAdd("A", f)
  \/ handleApply("A")
  \/ forcePull("A")
  \/ Network("A")

\* A GET has been answered and its continuation (pull() or forcePull after
\* the await) has not run yet: what enables pullResumes or forcePullResumes.
ContinuationDue ==
  \E i \in DOMAIN inflight["A"] :
    inflight["A"][i].phase = "answered" /\ inflight["A"][i].op \in {"pull", "forcePull"}

\* A step of pullResumes or forcePullResumes.
ContinuationRuns == last'.h \in {"pull", "forcePull.then"}

\* The store answers every fetch and the event loop runs every continuation
\* whose await has settled: weak fairness of each step of Network. For the
\* continuations of a GET it is written out, with ContinuationDue for ENABLED.
SpecLive ==
  /\ LiveInit
  /\ [][LiveNext]_vars
  /\ WF_vars(\E i \in DOMAIN inflight["A"] : answerGet("A", i))
  /\ WF_vars(\E i \in DOMAIN inflight["A"] : answerPost("A", i))
  /\ WF_vars(\E i \in DOMAIN inflight["A"] : updateAppsResumes("A", i))
  /\ ([]<>(~ContinuationDue) \/ []<><<ContinuationRuns>>_vars)

\* The steps that are the store's or a continuation's, not the user's.
NetworkStep ==
  last'.h \in {"answerGet", "answerPost", "pull", "forcePull.then", "updateApps.then"}

\* C26: a device with no fetch in flight shows the indicator idle; and if
\* from some point on the user starts nothing, every fetch being answered and
\* every continuation run, the indicator is idle from some point on for good.
C26_IndicatorReturnsToIdle ==
  /\ [](\A d \in Devices : inflight[d] = <<>> => ~isSyncing[d])
  /\ (<>[][NetworkStep]_vars) => <>[](~isSyncing["A"])

\* A push was refused by the store and its continuation has run: nothing is
\* in flight and the indicator is idle.
C26_Witness ==
  /\ last.h = "updateApps.then" /\ last.d = "A"
  /\ last.res.status # "ok"
  /\ page["A"] = "open"
  /\ inflight["A"] = <<>>
  /\ ~isSyncing["A"]

\* ------------------------------------------------ two devices, the same key

\* Both devices have loaded the page with the key k1 persisted, and the store
\* holds a collection at k1.
InitTwo ==
  /\ InitOf(Devices)
  /\ \A d \in Devices : Truthy(syncKey[d])
  /\ remote[<<"k1">>] # JNull
  /\ JSONparse(remote[<<"k1">>].s).ok
  /\ IsArray(JSONparse(remote[<<"k1">>].s).val)

\* The store answers the i-th fetch of device d with a 2xx.
Succeeds(d, i) == inflight'[d][i].status = "ok"

\* Device A is used: entries are added, edited and removed. Device B is left
\* alone: what happens there is what the page does by itself, which is the
\* auto-pull of its page load. Every fetch is answered with a 2xx.
NextTwo ==
  \/ openAdd("A")
  \/ onEdit("A")
  \/ onClose("A")
  \/ toggleAdmin("A")
  \/ \E f \in FormInputs : handleSaveAppEdit("A", f)
  \/ \E f \in FormInputs : handleSaveAppAdd("A", f)
  \/ handleDeleteApp("A")
  \/ \E i \in DOMAIN inflight["A"] : answerGet("A", i) /\ Succeeds("A", i)
  \/ \E i \in DOMAIN inflight["A"] : answerPost("A", i) /\ Succeeds("A", i)
  \/ \E i \in DOMAIN inflight["A"] : pullResumes("A", i)
  \/ \E i \in DOMAIN inflight["A"] : updateAppsResumes("A", i)
  \/ \E i \in DOMAIN inflight["B"] : answerGet("B", i) /\ Succeeds("B", i)
  \/ \E i \in DOMAIN inflight["B"] : pullResumes("B", i)

SpecTwo == InitTwo /\ [][NextTwo]_vars

\* C7: A and B have the same key; once a change made on A has been pushed with
\* success and no fetch of either device is left to be answered or resumed,
\* so that all that B does without its user has been done, B's collection is
\* A's, the one the store holds.
C7_OtherDeviceFollows ==
  ( /\ Truthy(syncKey["A"]) /\ syncKey["B"] = syncKey["A"]
    /\ last.h = "updateApps.then" /\ last.d = "A" /\ last.res.status = "ok"
    /\ inflight["A"] = <<>> /\ inflight["B"] = <<>>
    /\ remote[syncKey["A"].s] = JStr(JSONstringify(apps["A"])) )
  => apps["B"] = apps["A"]

\* ---------------------------------------------------- the local store alone

\* Entries a collection is made of: the seed, one that came from the store of
\* another device, one made with the form.
SampleEntries ==
  { INITIAL_APPS.a[1], RemoteEntry,
    AppLink(randomUUID(1), <<"M">>, Https \o <<"m">>, <<>>, Business, 1) }

\* The collections of at most MaxLen entries, the empty one among them.
Collections ==
  { JArr(a) : a \in UNION { [1..n -> SampleEntries] : n \in 0..MaxLen } }

\* Records that are no JSON: a stray character, an array or an object that
\* does not end, text after the value, a collection cut short.
CorruptTexts ==
  { <<P("?")>>, <<P("[")>>, <<P("["), P("]"), P("]")>>, <<P("{"), K("id")>>,
    <<P("{"), K("id"), P(":"), S(<<"seed">>), P(",")>>,
    SubSeq(JSONstringify(INITIAL_APPS), 1, Len(JSONstringify(INITIAL_APPS)) - 1) }

\* Records that are JSON and no array: null, a number, a string, an object.
NonArrayTexts ==
  { JSONstringify(JNull), JSONstringify(JNum(5)), JSONstringify(JStr(<<"x">>)),
    JSONstringify(JObj(EmptyObject)), JSONstringify(RemoteEntry) }

\* What localStorage may hold under STORAGE_KEY when the store is used: no
\* record, the empty string, a saved collection, or what something else wrote.
StoredRecords ==
  {JNull, JStr(<<>>)}
    \cup { JStr(JSONstringify(c)) : c \in Collections }
    \cup { JStr(t) : t \in CorruptTexts \cup NonArrayTexts }

StoreInit ==
  /\ \E record \in StoredRecords :
       localStorage = [d \in Devices |-> [EmptyStorage EXCEPT !.STORAGE_KEY = record]]
  /\ sessionStorage = [d \in Devices |-> JNull]
  /\ page = [d \in Devices |-> "closed"]
  /\ apps = [d \in Devices |-> JArr(<<>>)]
  /\ syncKey = [d \in Devices |-> JNull]
  /\ isSyncing = [d \in Devices |-> FALSE]
  /\ isAdmin = [d \in Devices |-> FALSE]
  /\ isModalOpen = [d \in Devices |-> FALSE]
  /\ editingApp = [d \in Devices |-> JNull]
  /\ inflight = [d \in Devices |-> <<>>]
  /\ remote = [k \in Keys |-> JNull]
  /\ nextId = 0
  /\ fetches = 0
  /\ now = 0
  /\ last = Ran("none", "A", JNull)

\* A call of storageService.saveApps(c); `before` is the record it found.
StoreSave(d) ==
  /\ \E c \in Collections :
       /\ localStorage' = [localStorage EXCEPT ![d] = saveApps(@, c)]
       /\ last' = Ran("saveApps", d,
                      [apps |-> c, before |-> getItem(localStorage[d], "STORAGE_KEY")])
  /\ UNCHANGED <<sessionStorage, page, apps, syncKey, isSyncing, isAdmin, isModalOpen,
                 editingApp, inflight, remote, nextId, fetches, now>>

\* A call of storageService.getApps(): how it ended, the record it read, and
\* the collection saved by the call right before it, if that was a saveApps.
StoreLoad(d) ==
  /\ last' = Ran("getApps", d,
                 [result |-> getApps(localStorage[d]),
                  record |-> getItem(localStorage[d], "STORAGE_KEY"),
                  saved |-> IF last.h = "saveApps" THEN last.res.apps ELSE JNull])
  /\ UNCHANGED <<localStorage, sessionStorage, page, apps, syncKey, isSyncing, isAdmin,
                 isModalOpen, editingApp, inflight, remote, nextId, fetches, now>>

StoreNext == StoreSave("A") \/ StoreLoad("A")

SpecStore == StoreInit /\ [][StoreNext]_vars

\* C8: getApps never throws, and it returns INITIAL_APPS whenever there is no
\* record, the record is the empty string, or the record is no JSON.
C8_LoadOfNothingOrCorruptIsSeed ==
  last.h = "getApps" =>
    /\ last.res.result.ok
    /\ ( \/ last.res.record = JNull
         \/ last.res.record = JStr(<<>>)
         \/ (last.res.record.t = "str" /\ last.res.record.s \in CorruptTexts) )
       => last.res.result = Ret(INITIAL_APPS)

\* getApps has read a record that is an array without its end and returned the seed.
C8_Witness ==
  /\ last.h = "getApps"
  /\ last.res.record = JStr(<<P("[")>>)
  /\ last.res.result = Ret(INITIAL_APPS)

\* A collection: an array whose elements are entries.
IsEntry(v) ==
  /\ v.t = "obj"
  /\ DOMAIN v.o = {"id", "name", "url", "icon", "category", "createdAt"}
  /\ \A k \in {"id", "name", "url", "icon", "category"} : v.o[k].t = "str"
  /\ v.o.createdAt.t = "num"

IsCollection(v) == IsArray(v) /\ \A i \in DOMAIN v.a : IsEntry(v.a[i])

\* C9: getApps always returns a collection: a record that is JSON and no
\* collection (null, a number, a string, an object) makes it return the seed.
C9_LoadReturnsCollection ==
  last.h = "getApps" =>
    /\ last.res.result.ok
    /\ IsCollection(last.res.result.val)
    /\ (last.res.record.t = "str" /\ last.res.record.s \in NonArrayTexts)
         => last.res.result = Ret(INITIAL_APPS)

\* C10: getApps right after saveApps(c) returns c, for every collection c, the
\* empty one too; and saveApps leaves the record holding c alone, whatever it
\* held before.
C10_RoundTrip ==
  /\ (last.h = "getApps" /\ last.res.saved # JNull)
       => last.res.result = Ret(last.res.saved)
  /\ last.h = "saveApps"
       => /\ getItem(localStorage[last.d], "STORAGE_KEY") = JStr(JSONstringify(last.res.apps))
          /\ getApps(localStorage[last.d]) = Ret(last.res.apps)

\* The empty collection was saved over a record of two entries, then loaded:
\* the empty collection came back, not the seed.
C10_Witness ==
  /\ last.h = "getApps"
  /\ last.res.saved = JArr(<<>>)
  /\ last.res.result = Ret(JArr(<<>>))
  /\ last.res.result # Ret(INITIAL_APPS)

\* ------------------------------------------------------------ the form alone

\* String.prototype.toLowerCase over the letters used here
LowerOf ==
  [c \in {"H", "T", "P", "S", "M", "R", "U", "B"} |->
     CASE c = "H" -> "h" [] c = "T" -> "t" [] c = "P" -> "p" [] c = "S" -> "s"
       [] c = "M" -> "m" [] c = "R" -> "r" [] c = "U" -> "u" [] c = "B" -> "b"]

toLowerCase(s) ==
  [i \in DOMAIN s |-> IF s[i] \in DOMAIN LowerOf THEN LowerOf[s[i]] ELSE s[i]]

\* /^https?:\/\//i.test(url)
testScheme(url) ==
  \/ StartsWith(toLowerCase(url), <<"h", "t", "t", "p", ":", "/", "/">>)
  \/ StartsWith(toLowerCase(url), Https)

\* handleSubmit's validatedUrl in App.tsx
validatedUrlApp(url) ==
  IF testScheme(url) THEN url ELSE Https \o url

\* handleSubmit's argument to onSave in App.tsx
appDataOfApp(initialData, f) ==
  LET fields == [name |-> JStr(f.name), url |-> JStr(validatedUrlApp(f.url)),
                 icon |-> JStr(f.icon), category |-> JStr(f.category)]
  IN  IF Truthy(initialData) THEN JObj(fields @@ initialData.o) ELSE JObj(fields)

\* What is typed into the url field: a start and a rest.
UrlStarts ==
  { <<>>, <<"h">>, <<"h", "t", "t", "p">>, <<"h", "t", "t", "p", "s">>,
    <<"h", "t", "t", "p", ":">>, <<"h", "t", "t", "p", ":", "/">>,
    <<"h", "t", "t", "p", ":", "/", "/">>, Https,
    <<"H", "T", "T", "P", ":", "/", "/">>, <<"H", "t", "t", "p", "s", ":", "/", "/">>,
    <<"f", "t", "p", ":", "/", "/">>, <<"/", "/">> }
UrlRests ==
  { <<>>, <<"m">>, <<".", "m">>, <<"m", ".", "c">> }
FormUrls == { a \o b : a \in UrlStarts, b \in UrlRests }

\* The fields of a submit, and the entry the form was opened on (null: add).
FormFields ==
  [name : {<<>>, <<"M">>}, url : FormUrls, icon : {<<>>}, category : {General}]
FormInitialData == {JNull, RemoteEntry}

\* No page, no record, no store: the state the functions are applied in.
PureInit ==
  /\ localStorage = [d \in Devices |-> EmptyStorage]
  /\ sessionStorage = [d \in Devices |-> JNull]
  /\ page = [d \in Devices |-> "closed"]
  /\ apps = [d \in Devices |-> JArr(<<>>)]
  /\ syncKey = [d \in Devices |-> JNull]
  /\ isSyncing = [d \in Devices |-> FALSE]
  /\ isAdmin = [d \in Devices |-> FALSE]
  /\ isModalOpen = [d \in Devices |-> FALSE]
  /\ editingApp = [d \in Devices |-> JNull]
  /\ inflight = [d \in Devices |-> <<>>]
  /\ remote = [k \in Keys |-> JNull]
  /\ nextId = 0
  /\ fetches = 0
  /\ now = 0
  /\ last = Ran("none", "A", JNull)

\* AppFormModal.handleSubmit of the sync variant on the fields f: what it
\* hands to onSave, null when it returns before.
handleSubmit(d) ==
  /\ \E f \in FormFields, initialData \in FormInitialData :
       last' = Ran("handleSubmit", d,
                   [variant |-> "part_000", f |-> f,
                    onSave |-> IF f.name = <<>> \/ f.url = <<>>
                               THEN JNull ELSE appDataOf(initialData, f)])
  /\ UNCHANGED <<localStorage, sessionStorage, page, apps, syncKey, isSyncing, isAdmin,
                 isModalOpen, editingApp, inflight, remote, nextId, fetches, now>>

\* AppFormModal.handleSubmit of App.tsx
handleSubmitApp(d) ==
  /\ \E f \in FormFields, initialData \in FormInitialData :
       last' = Ran("handleSubmit", d,
                   [variant |-> "App.tsx", f |-> f,
                    onSave |-> IF f.name = <<>> \/ f.url = <<>>
                               THEN JNull ELSE appDataOfApp(initialData, f)])
  /\ UNCHANGED <<localStorage, sessionStorage, page, apps, syncKey, isSyncing, isAdmin,
                 isModalOpen, editingApp, inflight, remote, nextId, fetches, now>>

FormNext == handleSubmit("A") \/ handleSubmitApp("A")

SpecForm == PureInit /\ [][FormNext]_vars

\* A url with a scheme, read in the claim's favour: "http://" or "https://"
\* in any case of the letters.
HasScheme(u) ==
  \E n \in {7, 8} :
    /\ Len(u) >= n
    /\ LET head == SubSeq(u, 1, n)
           want == SubSeq(IF n = 7 THEN <<"h", "t", "t", "p", ":", "/", "/">> ELSE Https, 1, n)
       IN  \A i \in 1..n :
             head[i] = want[i] \/ (head[i] \in DOMAIN LowerOf /\ LowerOf[head[i]] = want[i])

\* C15: the entry either form hands to onSave has a url with a scheme: the
\* typed url itself when it starts with "http://" or "https://", and
\* "https://" followed by the typed url when it does not.
C15_StoredUrlHasScheme ==
  (last.h = "handleSubmit" /\ last.res.onSave # JNull) =>
    /\ HasScheme(last.res.onSave.o.url.s)
    /\ last.res.onSave.o.url.s =
         IF HasScheme(last.res.f.url) THEN last.res.f.url ELSE Https \o last.res.f.url

\* ---------------------------------------------------------- the filter alone

All == <<"All">>
\* CATEGORIES: what the category bar offers
CATEGORIES == {All} \cup FormCategories

\* String.prototype.includes
includes(s, q) ==
  \E i \in 0..(Len(s) - Len(q)) : SubSeq(s, i + 1, i + Len(q)) = q

\* filteredApps without its toLowerCase calls
filteredAppsCaseSensitive(appList, searchQuery, activeCategory) ==
  LET keep(app) ==
        LET matchesSearch == \/ includes(app.o.name.s, searchQuery)
                             \/ includes(app.o.url.s, searchQuery)
            matchesCategory == activeCategory = All \/ app.o.category.s = activeCategory
        IN  matchesSearch /\ matchesCategory
  IN  JArr(SelectSeq(appList.a, keep))

\* filteredApps: apps.filter(app => matchesSearch && matchesCategory)
filteredApps(appList, searchQuery, activeCategory) ==
  LET keep(app) ==
        LET matchesSearch ==
              \/ includes(toLowerCase(app.o.name.s), toLowerCase(searchQuery))
              \/ includes(toLowerCase(app.o.url.s), toLowerCase(searchQuery))
            matchesCategory == activeCategory = All \/ app.o.category.s = activeCategory
        IN  matchesSearch /\ matchesCategory
  IN  JArr(SelectSeq(appList.a, keep))

\* The entries on show: the seed, one from another device, one whose name and
\* url mix the cases.
FilterEntries ==
  { INITIAL_APPS.a[1], RemoteEntry,
    AppLink(<<"e3">>, <<"m", "U">>, <<"H", "T", "T", "P", ":", "/", "/", "b">>, <<>>,
            General, 0) }
FilterCollections ==
  { JArr(a) : a \in UNION { [1..n -> FilterEntries] : n \in 0..MaxLen } }

\* What is typed into the search box.
SearchQueries ==
  { <<>>, <<"u">>, <<"U">>, <<"h", "U">>, <<"U", "B">>, <<"r">>, <<"R">>, <<"s", ":">>,
    <<"p", ":", "/", "/", "B">>, <<"x">>, <<"m", "u", "b">>, <<"H", "u", "b", "s">> }

\* One rendering of App with the collection, the search box and the category
\* bar as chosen: filteredApps is computed.
renderFilteredApps(d) ==
  /\ \E c \in FilterCollections, q \in SearchQueries, cat \in CATEGORIES :
       last' = Ran("filteredApps", d,
                   [apps |-> c, searchQuery |-> q, activeCategory |-> cat,
                    result |-> filteredApps(c, q, cat)])
  /\ UNCHANGED <<localStorage, sessionStorage, page, apps, syncKey, isSyncing, isAdmin,
                 isModalOpen, editingApp, inflight, remote, nextId, fetches, now>>

FilterNext == renderFilteredApps("A")

SpecFilter == PureInit /\ [][FilterNext]_vars

\* s contains q, a letter standing for itself in either case.
SameLetter(a, b) ==
  \/ a = b
  \/ a \in DOMAIN LowerOf /\ LowerOf[a] = b
  \/ b \in DOMAIN LowerOf /\ LowerOf[b] = a
Contains(s, q) ==
  \E i \in 1..(Len(s) + 1) :
    /\ i + Len(q) - 1 <= Len(s)
    /\ \A k \in 1..Len(q) : SameLetter(s[i + k - 1], q[k])

\* The positions of the entries of a that the search s and the category c select.
Selected(a, s, c) ==
  { i \in DOMAIN a :
      /\ Contains(a[i].o.name.s, s) \/ Contains(a[i].o.url.s, s)
      /\ c = All \/ a[i].o.category.s = c }

\* C17: filteredApps is exactly the entries of the collection, in the order of
\* the collection, whose name or url contains the search in any case of the
\* letters and whose category is the chosen one or the chosen one is "All";
\* with an empty search and "All" it is the whole collection.
C17_FilterIsExact ==
  last.h = "filteredApps" =>
    LET C == last.res.apps.a
        R == last.res.result
        M == Selected(C, last.res.searchQuery, last.res.activeCategory)
    IN  /\ IsArray(R)
        /\ Len(R.a) = Cardinality(M)
        /\ \A k \in 1..Len(R.a) :
             R.a[k] = C[CHOOSE i \in M : Cardinality({j \in M : j <= i}) = k]
        /\ (last.res.searchQuery = <<>> /\ last.res.activeCategory = All)
             => R = last.res.apps

\* "hU" was searched under "All" in a collection of two: the seed, named
\* "Hub", is the one entry on show.
C17_Witness ==
  /\ last.h = "filteredApps"
  /\ last.res.searchQuery = <<"h", "U">>
  /\ last.res.activeCategory = All
  /\ last.res.apps = JArr(<<RemoteEntry, INITIAL_APPS.a[1]>>)
  /\ last.res.result = INITIAL_APPS

\* ------------------------------------------- the variant without sync or edit

\* What earlier sessions of this variant may have left under STORAGE_KEY: no
\* record, or a saved collection of entries with distinct identifiers.
OneRecords ==
  {JNull} \cup
  { JStr(JSONstringify(JArr(a))) :
      a \in { <<>>, INITIAL_APPS.a, <<RemoteEntry>>,
              INITIAL_APPS.a \o <<RemoteEntry>>, <<RemoteEntry>> \o INITIAL_APPS.a } }

OneInit ==
  /\ \E record \in OneRecords :
       localStorage = [d \in Devices |-> [EmptyStorage EXCEPT !.STORAGE_KEY = record]]
  /\ sessionStorage = [d \in Devices |-> JNull]
  /\ page = [d \in Devices |-> "closed"]
  /\ apps = [d \in Devices |-> JArr(<<>>)]
  /\ syncKey = [d \in Devices |-> JNull]
  /\ isSyncing = [d \in Devices |-> FALSE]
  /\ isAdmin = [d \in Devices |-> FALSE]
  /\ isModalOpen = [d \in Devices |-> FALSE]
  /\ editingApp = [d \in Devices |-> JNull]
  /\ inflight = [d \in Devices |-> <<>>]
  /\ remote = [k \in Keys |-> JNull]
  /\ nextId = 0
  /\ fetches = 0
  /\ now = 0
  /\ last = Ran("none", "A", JNull)

\* The effect on [apps]: `if (apps.length > 0) storageService.saveApps(apps)`
saveEffect(storage, newApps) ==
  IF Len(newApps.a) > 0 THEN saveApps(storage, newApps) ELSE storage

\* A page load: apps starts as [], the effect on [] sets it to getApps(), and
\* the effect on [apps] runs at both renders.
OneMount(d) ==
  LET savedApps == getApps(localStorage[d]).val IN
  /\ page[d] = "closed"
  /\ page' = [page EXCEPT ![d] = "open"]
  /\ apps' = [apps EXCEPT ![d] = savedApps]
  /\ localStorage' = [localStorage EXCEPT
                        ![d] = saveEffect(saveEffect(@, JArr(<<>>)), savedApps)]
  /\ last' = Ran("mount", d, savedApps)
  /\ UNCHANGED <<sessionStorage, syncKey, isSyncing, isAdmin, isModalOpen, editingApp,
                 inflight, remote, nextId, fetches, now>>

\* The page is closed or reloaded: the state of App is gone.
OneClose(d) ==
  /\ page[d] = "open"
  /\ page' = [page EXCEPT ![d] = "closed"]
  /\ apps' = [apps EXCEPT ![d] = JArr(<<>>)]
  /\ isAdmin' = [isAdmin EXCEPT ![d] = FALSE]
  /\ isModalOpen' = [isModalOpen EXCEPT ![d] = FALSE]
  /\ last' = Ran("close", d, JNull)
  /\ UNCHANGED <<localStorage, sessionStorage, syncKey, isSyncing, editingApp, inflight,
                 remote, nextId, fetches, now>>

\* The ADMIN / USER button: setIsAdmin(!isAdmin)
OneToggleAdmin(d) ==
  /\ page[d] = "open" /\ ~isModalOpen[d]
  /\ isAdmin' = [isAdmin EXCEPT ![d] = ~isAdmin[d]]
  /\ last' = Ran("toggleAdmin", d, JNull)
  /\ UNCHANGED <<localStorage, sessionStorage, page, apps, syncKey, isSyncing, isModalOpen,
                 editingApp, inflight, remote, nextId, fetches, now>>

\* The ADD APP button, and the modal's onClose
OneSetIsModalOpen(d) ==
  /\ page[d] = "open"
  /\ isModalOpen' = [isModalOpen EXCEPT ![d] = ~isModalOpen[d]]
  /\ last' = Ran("setIsModalOpen", d, JNull)
  /\ UNCHANGED <<localStorage, sessionStorage, page, apps, syncKey, isSyncing, isAdmin,
                 editingApp, inflight, remote, nextId, fetches, now>>

\* What AddAppModal hands to onAdd: the fields of an entry without id and createdAt.
NewAppData ==
  { [name |-> JStr(<<"M">>), url |-> JStr(Https \o <<"m">>), icon |-> JStr(<<>>),
     category |-> JStr(Business)] }

\* handleAddApp(newAppData), and the effect on [apps]
handleAddApp(d) ==
  /\ page[d] = "open" /\ isModalOpen[d]
  /\ Len(apps[d].a) < MaxLen
  /\ nextId < MaxIds
  /\ \E newAppData \in NewAppData, t \in {now, now + 1} :
       LET newApp == JObj([id |-> JStr(randomUUID(nextId + 1)), createdAt |-> JNum(t)]
                          @@ newAppData)
           nextApps == JArr(<<newApp>> \o apps[d].a)
       IN  /\ apps' = [apps EXCEPT ![d] = nextApps]
           /\ localStorage' = [localStorage EXCEPT ![d] = saveEffect(@, nextApps)]
           /\ now' = t
           /\ last' = Ran("handleAddApp", d, nextApps)
  /\ nextId' = nextId + 1
  /\ UNCHANGED <<sessionStorage, page, syncKey, isSyncing, isAdmin, isModalOpen, editingApp,
                 inflight, remote, fetches>>

\* handleDeleteApp(id) from the card of an entry, shown to admins: confirm(),
\* the filter, and the effect on [apps]
handleDeleteAppOne(d) ==
  /\ page[d] = "open" /\ isAdmin[d] /\ ~isModalOpen[d]
  /\ \E i \in DOMAIN apps[d].a, confirm \in BOOLEAN :
       LET nextApps == IF confirm THEN JArr(RemoveById(apps[d].a, apps[d].a[i].o.id))
                       ELSE apps[d]
       IN  /\ apps' = [apps EXCEPT ![d] = nextApps]
           /\ localStorage' = [localStorage EXCEPT
                                 ![d] = IF confirm THEN saveEffect(@, nextApps) ELSE @]
           /\ last' = Ran(IF confirm THEN "handleDeleteApp" ELSE "confirm", d, nextApps)
  /\ UNCHANGED <<sessionStorage, page, syncKey, isSyncing, isAdmin, isModalOpen, editingApp,
                 inflight, remote, nextId, fetches, now>>

OneNext ==
  \/ OneMount("A")
  \/ OneClose("A")
  \/ OneToggleAdmin("A")
  \/ OneSetIsModalOpen("A")
  \/ handleAddApp("A")
  \/ handleDeleteAppOne("A")

SpecOne == OneInit /\ [][OneNext]_vars

\* C11: once an add or a delete has been processed, the record under
\* STORAGE_KEY is the collection in memory, the empty one too, and getApps
\* (what a reload starts from) returns it.
C11_PersistedAfterEveryMutation ==
  (last.h \in {"handleAddApp", "handleDeleteApp"} /\ page[last.d] = "open") =>
    /\ Persisted(last.d) = JStr(JSONstringify(apps[last.d]))
    /\ getApps(localStorage[last.d]) = Ret(apps[last.d])

====
